---- MODULE Spec2Model ----
(***************************************************************************)
(* A model of the ContentChef Go client (src/contentchef/client.go):       *)
(*   - serializeSorting, the custom query encoding of a sort specification *)
(*   - addOptions, the query encoder applied to a request path             *)
(*   - Client.do and checkResponse, the execute-and-decode operation and   *)
(*     its classification of non-2xx responses                             *)
(* Go strings that the code inspects character by character (field names,  *)
(* request paths) are sequences of one-character strings.                  *)
(***************************************************************************)
EXTENDS Integers, Sequences, FiniteSets, TLC

VARIABLES
    sortPc,     \* "input" before serializeSorting has run, "done" after
    sortIn,     \* the Sorting value handed to serializeSorting
    sortOut,    \* the string serializeSorting returned
    optPc,      \* "input" before addOptions has run, "done" after
    optPath,    \* the path handed to addOptions
    optOpts,    \* the options value handed to addOptions
    optOut,     \* what addOptions returned: [path, err]
    pc,         \* position of the current call of Client.do
    ctx,        \* the context.Context handed to do
    v0,         \* the target v as the caller passed it in
    v,          \* the target v now
    sends,      \* how often this call of do invoked httpClient.Do
    terr,       \* the error httpClient.Do returned ("none": it returned a response)
    res,        \* the *http.Response httpClient.Do returned
    bodyState,  \* "none" | "open" | "closed": res.Body
    ret,        \* what do returned: [resp, err]
    cpc,        \* position of the caller of the client: constructors, Content / Search, get
    newArgs,    \* the ClientOptions of the last NewClient call
    newErr,     \* the error of the last NewClient call
    client,     \* the Client that NewClient returned
    chanArgs,   \* the arguments of the last OnlineChannel / PreviewChannel call
    chanErr,    \* the error of that call
    chan,       \* the channel that call returned
    call,       \* the Content / Search call in progress: [method, config]
    gopts,      \* get: the options value handed to addOptions
    gpath,      \* get: the path, before and after addOptions
    req,        \* get: the request newRequest built, as handed to do
    gret        \* what Content / Search returned: the error

sortVars == <<sortPc, sortIn, sortOut>>
optVars  == <<optPc, optPath, optOpts, optOut>>
doVars   == <<pc, ctx, v0, v, sends, terr, res, bodyState, ret>>
cliVars  == <<cpc, newArgs, newErr, client, chanArgs, chanErr, chan,
              call, gopts, gpath, req, gret>>
vars     == <<sortPc, sortIn, sortOut, optPc, optPath, optOpts, optOut,
              pc, ctx, v0, v, sends, terr, res, bodyState, ret,
              cpc, newArgs, newErr, client, chanArgs, chanErr, chan,
              call, gopts, gpath, req, gret>>

(***************************************************************************)
(* Bounds of the model.                                                    *)
(***************************************************************************)
MaxName == 2
MaxSort == 2
MaxPath == 3

\* All sequences over S of length at most n.
SeqUpTo(S, n) == UNION {[1..k -> S] : k \in 0..n}

(***************************************************************************)
(* strings.TrimSpace and strings.Join, on character sequences.             *)
(***************************************************************************)
RECURSIVE TrimLeft(_)
TrimLeft(s) ==
    IF s # <<>> /\ Head(s) = " " THEN TrimLeft(Tail(s)) ELSE s

RECURSIVE TrimRight(_)
TrimRight(s) ==
    IF s # <<>> /\ s[Len(s)] = " " THEN TrimRight(SubSeq(s, 1, Len(s) - 1)) ELSE s

TrimSpace(s) == TrimRight(TrimLeft(s))

RECURSIVE Join(_, _)
Join(values, sep) ==
    IF values = <<>> THEN <<>>
    ELSE IF Len(values) = 1 THEN values[1]
    ELSE values[1] \o sep \o Join(Tail(values), sep)

(***************************************************************************)
(* Sorting, SortingField and serializeSorting.                             *)
(***************************************************************************)
NameChars == {" ", "a"}
FieldNames == SeqUpTo(NameChars, MaxName)
SortingField == [FieldName : FieldNames, Ascending : BOOLEAN]
Sorting == SeqUpTo(SortingField, MaxSort)

\* The loop body: the slot values[i] of one entry (a skipped entry leaves the
\* slot that make([]string, len(s)) created, the empty string).
sortSlot(field) ==
    IF Len(field.FieldName) = 0 THEN <<>>
    ELSE <<IF field.Ascending THEN "+" ELSE "-">> \o TrimSpace(field.FieldName)

serializeSorting(s) ==
    Join([i \in 1..Len(s) |-> sortSlot(s[i])], <<",">>)

(***************************************************************************)
(* net/url as addOptions uses it: url.Parse on a relative reference and    *)
(* URL.String.  Path characters: "p" and "q" are plain letters, "?" starts *)
(* the query, "%" is an escape that no hex digits follow (the alphabet has *)
(* none), which url.Parse rejects in the path part only.                   *)
(***************************************************************************)
PathChars == {"p", "q", "?", "%"}
Paths == SeqUpTo(PathChars, MaxPath)

Count(s, c) == Cardinality({i \in 1..Len(s) : s[i] = c})
Index(s, c) == IF Count(s, c) = 0 THEN 0
               ELSE CHOOSE i \in 1..Len(s) : s[i] = c /\ \A j \in 1..(i - 1) : s[j] # c

urlParse(rawurl) ==
    LET force == Count(rawurl, "?") = 1 /\ rawurl[Len(rawurl)] = "?"
        cut   == Index(rawurl, "?")
        path  == IF cut = 0 THEN rawurl ELSE SubSeq(rawurl, 1, cut - 1)
        query == IF cut = 0 \/ force THEN <<>> ELSE SubSeq(rawurl, cut + 1, Len(rawurl))
    IN  [err        |-> Count(path, "%") > 0,
         Path       |-> path,
         RawQuery   |-> query,
         ForceQuery |-> force]

urlString(u) ==
    u.Path \o (IF u.ForceQuery \/ u.RawQuery # <<>> THEN <<"?">> \o u.RawQuery ELSE <<>>)

(***************************************************************************)
(* The options value (an interface{}) handed to addOptions.  kind:         *)
(*   "nil"     the untyped nil interface, as in get(ctx, path, key, nil, v)*)
(*   "nilptr"  a typed nil pointer, e.g. a nil pointer to ContentOptions   *)
(*   "ptr"     a non-nil pointer to an options struct                      *)
(*   "struct"  an options struct passed by value                           *)
(*   "int"     a value that is no struct                                   *)
(* Of an options struct the model keeps: own, the encoding of the caller's *)
(* fields (one query token, "q"); targetDate, the string in the field      *)
(* tagged targetDate,omitempty that the preview channel adds ("": none);   *)
(* bad, whether the PropFilters hold a value that json.Marshal rejects, so *)
(* that PropFilters.EncodeValues returns an error.                         *)
(***************************************************************************)
Opt(kind, own, targetDate, bad) ==
    [kind |-> kind, own |-> own, targetDate |-> targetDate, bad |-> bad]

NilOptions    == Opt("nil", <<>>, "", FALSE)
NilPtrOptions == Opt("nilptr", <<>>, "", FALSE)

Options ==
    {NilOptions, NilPtrOptions, Opt("ptr", <<"q">>, "", FALSE),
     Opt("struct", <<"q">>, "", FALSE), Opt("int", <<>>, "", FALSE)}

\* reflect.ValueOf(opts).Kind()
reflectKind(opts) ==
    CASE opts.kind = "nil"              -> "Invalid"
      [] opts.kind \in {"nilptr", "ptr"} -> "Ptr"
      [] opts.kind = "struct"           -> "Struct"
      [] OTHER                          -> "Int"

\* reflect.Value.IsNil, for a pointer
reflectIsNil(opts) == opts.kind = "nilptr"

\* query.Values(opts) followed by Encode(): the keys in sorted order, so
\* targetDate after the caller's own fields (publicId, skip, take, ...); a
\* field tagged omitempty that holds "" is left out.
queryValues(opts) ==
    CASE opts.kind \in {"nil", "nilptr"} -> [err |-> FALSE, qs |-> <<>>]
      [] opts.kind \in {"ptr", "struct"} ->
           [err |-> opts.bad,
            qs  |-> IF opts.bad THEN <<>>
                    ELSE opts.own \o (IF opts.targetDate = "" THEN <<>>
                                      ELSE <<"&", "targetDate=", opts.targetDate>>)]
      [] OTHER -> [err |-> TRUE, qs |-> <<>>]

addOptionsUnchecked(path, opts) == [path |-> path, err |-> "none"]

addOptions(path, opts) ==
    IF reflectKind(opts) = "Ptr" /\ reflectIsNil(opts)
    THEN [path |-> path, err |-> "none"]
    ELSE LET u  == urlParse(path)
             qs == queryValues(opts)
         IN  IF u.err THEN [path |-> path, err |-> "parse"]
             ELSE IF qs.err THEN [path |-> path, err |-> "encode"]
             ELSE [path |-> urlString([u EXCEPT !.RawQuery = qs.qs]), err |-> "none"]

(***************************************************************************)
(* The specifications of the two pure functions: the initial state draws   *)
(* the input, the one action applies the function.                         *)
(***************************************************************************)
(***************************************************************************)
(* HTTP responses.  A response body is what the body reader delivers: no   *)
(* bytes, text that is not JSON, or a JSON value.  Of a JSON object the    *)
(* model keeps the keys the decoders look at: "message", "response" (both  *)
(* match an exported field of errorResponse, encoding/json matching keys   *)
(* to field names without regard to case) and whether any other key is     *)
(* present (e.g. "errors").  readErr: reading the body fails.              *)
(***************************************************************************)
BodyKinds == {"empty", "text", "null", "number", "object"}
MessageValues == {"absent", "null", "string", "number"}
ResponseValues == {"absent", "null", "object", "string"}

EmptyBody == [kind |-> "empty", message |-> "absent", response |-> "absent", other |-> FALSE]

Bodies ==
    {b \in [kind : BodyKinds, message : MessageValues,
            response : ResponseValues, other : BOOLEAN] :
        b.kind # "object" =>
            (b.message = "absent" /\ b.response = "absent" /\ ~b.other)}

StatusCodes == {199, 200, 299, 300, 404}

Responses == [status : StatusCodes, body : Bodies, readErr : BOOLEAN]

NoResponse == [status |-> 0, body |-> EmptyBody, readErr |-> FALSE]

(***************************************************************************)
(* Go strings that hold a message: the empty string, the string "m" that   *)
(* is the value of a JSON message field, or the raw text of a body         *)
(* (string(data)); the raw text of a body without bytes is the empty       *)
(* string.                                                                 *)
(***************************************************************************)
StrEmpty == [kind |-> "empty", of |-> EmptyBody]
StrM     == [kind |-> "m", of |-> EmptyBody]
RawText(data) == IF data.kind = "empty" THEN StrEmpty ELSE [kind |-> "raw", of |-> data]

(***************************************************************************)
(* Errors.  kind: "none" (nil), "nilctx" (errors.New in do), "Canceled" /  *)
(* "DeadlineExceeded" (ctx.Err()), "connRefused" / "redirectLoop" /        *)
(* "urlCtx" (what httpClient.Do returns, the last one a *url.Error that    *)
(* wraps the context's error), "api" (an errorResponse), "syntax", "type", *)
(* "read", "EOF" (what the JSON decoder returns).                          *)
(* Response and Message are the fields of an errorResponse.                *)
(***************************************************************************)
Err(kind) == [kind |-> kind, Response |-> "nil", Message |-> StrEmpty]
NoError == Err("none")
NoReturn == [resp |-> "nil", err |-> NoError]

\* json.Unmarshal(data, errorResponse): er is the errorResponse before, the
\* result is [err, val].  A key that matches no field is skipped; null into
\* a string leaves it, null into the pointer Response sets it to nil; a JSON
\* object decodes into the response that Response already points to; a value
\* of the wrong type is an UnmarshalTypeError after which decoding goes on.
jsonUnmarshal(data, er) ==
    CASE data.kind = "text"   -> [err |-> TRUE,  val |-> er]
      [] data.kind = "null"   -> [err |-> FALSE, val |-> er]
      [] data.kind = "number" -> [err |-> TRUE,  val |-> er]
      [] OTHER ->
           [err |-> data.message = "number" \/ data.response = "string",
            val |-> [er EXCEPT
                       !.Message  = IF data.message = "string" THEN StrM ELSE @,
                       !.Response = IF data.response = "null" THEN "nil" ELSE @]]

successStatusOff(c) == c >= 200 /\ c < 299

\* c >= 200 && c <= 299
successStatus(c) == c >= 200 /\ c <= 299

checkResponse(r) ==
    IF successStatus(r.status) THEN NoError
    ELSE LET errorResponse == [kind |-> "api", Response |-> "r", Message |-> StrEmpty]
             u == jsonUnmarshal(r.body, errorResponse)
         IN  IF ~r.readErr /\ r.body.kind # "empty"
             THEN IF u.err THEN [u.val EXCEPT !.Message = RawText(r.body)] ELSE u.val
             ELSE errorResponse

(***************************************************************************)
(* The target v of do: nil, an io.Writer (data: what was written to it),   *)
(* or a pointer to a struct with one string field tagged "message".        *)
(***************************************************************************)
NilTarget == [kind |-> "nil", field |-> "", data |-> <<>>]
Targets ==
    {NilTarget, [kind |-> "writer", field |-> "", data |-> <<>>]}
    \cup {[kind |-> "json", field |-> f, data |-> <<>>] : f \in {"", "old"}}

\* json.NewDecoder(res.Body).Decode(v): [err, v]
jsonDecode(r, t) ==
    CASE r.readErr              -> [err |-> "read",   v |-> t]
      [] r.body.kind = "empty"  -> [err |-> "EOF",    v |-> t]
      [] r.body.kind = "text"   -> [err |-> "syntax", v |-> t]
      [] r.body.kind = "null"   -> [err |-> "none",   v |-> t]
      [] r.body.kind = "number" -> [err |-> "type",   v |-> t]
      [] OTHER ->
           [err |-> IF r.body.message = "number" THEN "type" ELSE "none",
            v   |-> [t EXCEPT !.field = IF r.body.message = "string" THEN "m" ELSE @]]

\* io.Copy(w, res.Body), its error dropped
ioCopy(r, t) ==
    IF r.readErr \/ r.body.kind = "empty" THEN t
    ELSE [t EXCEPT !.data = Append(@, r.body)]

decodeErrorKept(decErr) == decErr

\* if decErr == io.EOF { decErr = nil }
decodeError(decErr) == IF decErr = "EOF" THEN "none" ELSE decErr

(***************************************************************************)
(* context.Context: "nil", "background" (never done), "live" (can still be *)
(* cancelled or expire), "canceled", "expired".                            *)
(***************************************************************************)
Contexts == {"nil", "background", "live", "canceled", "expired"}
ctxDone(c) == c \in {"canceled", "expired"}
ctxErr(c) == IF c = "canceled" THEN "Canceled" ELSE "DeadlineExceeded"

ctxIsNilNever(c) == FALSE

\* ctx == nil
ctxIsNil(c) == c = "nil"

transportFailureUnselected(c, e) == Err(e)

\* select { case <-ctx.Done(): return nil, ctx.Err(); default: }; return nil, err
transportFailure(c, e) == IF ctxDone(c) THEN Err(ctxErr(c)) ELSE Err(e)

deferredCloseForgotten(state) == state

\* defer res.Body.Close(), run as do returns
deferredClose(state) == "closed"

TransportErrors == {"connRefused", "redirectLoop"}

(***************************************************************************)
(* The client and its channels.  Strings that end up in a URL are token    *)
(* sequences: "/" separates path segments, "%" is a malformed escape, the  *)
(* other tokens are plain text.  Base URLs: empty, a relative path, an     *)
(* absolute URL, an absolute URL with a path prefix, and a string that     *)
(* url.Parse rejects (a colon before any scheme).                          *)
(***************************************************************************)
BaseURLs ==
    {<<>>, <<"api", "/">>, <<"https://host", "/">>,
     <<"https://host", "/", "api", "/">>, <<":">>}
SpaceIDs == {<<>>, <<"s">>}
ChannelNames == {<<>>, <<"n">>, <<"%">>}
ApiKeys == {"", "k1", "k2"}
PreviewStates == {"", "live", "staging", "LIVE"}

\* time.Time values: the zero time and one date.
ZeroTime == [sec |-> 0]
TargetDates == {ZeroTime, [sec |-> 1]}

\* time.Time.IsZero
timeIsZero(t) == t.sec = 0

\* t.Format(time.RFC3339)
timeFormat(t) == IF t.sec = 0 THEN "0001-01-01T00:00:00Z" ELSE "2020-04-09T22:00:00Z"

ClientOptions == [BaseURL : BaseURLs, SpaceID : SpaceIDs, TargetDate : TargetDates]

\* url.Parse(o.BaseURL): [err, Host, Path]; Host holds scheme and authority.
baseParse(rawurl) ==
    IF rawurl # <<>> /\ Head(rawurl) = ":"
    THEN [err |-> TRUE, Host |-> <<>>, Path |-> <<>>]
    ELSE IF rawurl # <<>> /\ Head(rawurl) = "https://host"
    THEN [err |-> FALSE, Host |-> <<Head(rawurl)>>, Path |-> Tail(rawurl)]
    ELSE [err |-> FALSE, Host |-> <<>>, Path |-> rawurl]

NoURL == [err |-> FALSE, Host |-> <<>>, Path |-> <<>>]
NoClient == [made |-> FALSE, BaseURL |-> NoURL, SpaceID |-> <<>>, TargetDate |-> ZeroTime]
NoClientOptions == [BaseURL |-> <<>>, SpaceID |-> <<>>, TargetDate |-> ZeroTime]

\* The target date of the client, which the preview channel reads as
\* s.client.TargetDate: the date the ClientOptions carry.
clientTargetDate(o) == o.TargetDate

spaceIDMissingUnchecked(id) == FALSE

\* o.SpaceID == ""
spaceIDMissing(id) == id = <<>>

\* NewClient(o): [err, client]
NewClient(o) ==
    LET BaseURL == baseParse(o.BaseURL)
    IN  IF BaseURL.err THEN [err |-> "parse", client |-> NoClient]
        ELSE IF spaceIDMissing(o.SpaceID) THEN [err |-> "SpaceID must be setted", client |-> NoClient]
        ELSE [err |-> "none",
              client |-> [made |-> TRUE, BaseURL |-> BaseURL, SpaceID |-> o.SpaceID,
                          TargetDate |-> clientTargetDate(o)]]

NoChannel == [kind |-> "none", client |-> NoClient, name |-> <<>>, apiKey |-> "", state |-> ""]
NoChannelArgs == [kind |-> "none", name |-> <<>>, apiKey |-> "", state |-> ""]

\* Client.OnlineChannel(name, apiKey): [err, channel]
OnlineChannel(c, name, apiKey) ==
    IF name = <<>> THEN [err |-> "name", channel |-> NoChannel]
    ELSE IF apiKey = "" THEN [err |-> "apiKey", channel |-> NoChannel]
    ELSE [err |-> "none",
          channel |-> [kind |-> "online", client |-> c, name |-> name,
                       apiKey |-> apiKey, state |-> ""]]

previewStateValidAny(state) == TRUE

\* state != "live" && state != "staging", negated
previewStateValid(state) == state = "live" \/ state = "staging"

\* Client.PreviewChannel(name, apiKey, state): [err, channel]
PreviewChannel(c, name, apiKey, state) ==
    IF name = <<>> THEN [err |-> "name", channel |-> NoChannel]
    ELSE IF apiKey = "" THEN [err |-> "apiKey", channel |-> NoChannel]
    ELSE IF ~previewStateValid(state) THEN [err |-> "state", channel |-> NoChannel]
    ELSE [err |-> "none",
          channel |-> [kind |-> "preview", client |-> c, name |-> name,
                       apiKey |-> apiKey, state |-> state]]

(***************************************************************************)
(* Requests.  A request is its method, its URL as a string, its body and   *)
(* the four headers the client sets ("": the header is not set).           *)
(***************************************************************************)
mediaType == "application/json"
userAgent == "contentchef-go/0.1"

NoRequest ==
    [method |-> "", url |-> <<>>, body |-> "nil", ContentType |-> "",
     Accept |-> "", UserAgent |-> "", ApiKey |-> ""]

\* The directory of a base path: the path up to its last "/".
baseDir(path) ==
    LET slashes == {i \in 1..Len(path) : path[i] = "/"}
    IN  IF slashes = {} THEN <<>>
        ELSE SubSeq(path, 1, CHOOSE i \in slashes : \A j \in slashes : j <= i)

\* c.BaseURL.Parse(urlStr) followed by String(): url.Parse of the reference
\* and URL.ResolveReference (a reference whose path starts with "/" replaces
\* the path of the base, another one is merged with the directory of the
\* base path): [err, url]
urlResolve(base, urlStr) ==
    LET ref  == urlParse(urlStr)
        path == IF ref.Path = <<>> THEN base.Path
                ELSE IF Head(ref.Path) = "/" THEN ref.Path
                ELSE baseDir(base.Path) \o ref.Path
    IN  [err |-> ref.err,
         url |-> base.Host \o urlString([ref EXCEPT !.Path = path])]

contentTypeAlways(body) == mediaType

\* if body != nil { req.Header.Set("Content-Type", mediaType) }
contentType(body) == IF body # "nil" THEN mediaType ELSE ""

\* Client.newRequest(method, urlStr, body): [err, req]
newRequest(c, method, urlStr, body) ==
    LET u == urlResolve(c.BaseURL, urlStr)
    IN  IF u.err THEN [err |-> TRUE, req |-> NoRequest]
        ELSE [err |-> FALSE,
              req |-> [method |-> method, url |-> u.url, body |-> body,
                       ContentType |-> contentType(body),
                       Accept |-> mediaType, UserAgent |-> userAgent,
                       ApiKey |-> ""]]

\* Whether the transport can send the request at all: its URL has a scheme
\* and a host.  (The request of a bare call of do is not modelled.)
Sendable(r) == r = NoRequest \/ (r.url # <<>> /\ Head(r.url) = "https://host")

(***************************************************************************)
(* Content and Search of the two channels.  method is the path text of the *)
(* method, <<"content">> or <<"search", "/", "v2">>; config is the pointer *)
(* the caller passes: "nil", "good" (options that encode) or "bad" (search *)
(* options whose property filter cannot be marshalled).                    *)
(***************************************************************************)
getOnlineEndpoint(spaceID, method, channel) ==
    <<"/", "space", "/">> \o spaceID \o <<"/", "online", "/">> \o method
        \o <<"/">> \o channel

getPreviewEndpointSwapped(spaceID, method, channel, state) ==
    <<"/", "space", "/">> \o spaceID \o <<"/", "preview", "/">> \o channel
        \o <<"/">> \o <<state>> \o <<"/">> \o method

\* fmt.Sprintf("/space/%s/preview/%s/%s/%s", spaceID, state, method, channel)
getPreviewEndpoint(spaceID, method, channel, state) ==
    <<"/", "space", "/">> \o spaceID \o <<"/", "preview", "/">> \o <<state>>
        \o <<"/">> \o method \o <<"/">> \o channel

MethodPath(method) ==
    IF method = "Content" THEN <<"content">> ELSE <<"search", "/", "v2">>

ContentConfigs == {"nil", "good"}
SearchConfigs == {"nil", "good", "bad"}

\* OnlineChannel.Content / Search up to the call of get: the config pointer
\* is handed to get as it is.
onlineCall(s, method, config) ==
    [panic |-> FALSE,
     path  |-> getOnlineEndpoint(s.client.SpaceID, MethodPath(method), s.name),
     opts  |-> IF config = "nil" THEN NilPtrOptions
               ELSE Opt("ptr", <<"q">>, "", config = "bad")]

previewTargetDateAlways(c) == timeFormat(c.TargetDate)

\* if !s.client.TargetDate.IsZero() { targetDate = ...Format(time.RFC3339) }
previewTargetDate(c) ==
    IF ~timeIsZero(c.TargetDate) THEN timeFormat(c.TargetDate) ELSE ""

\* PreviewChannel.Content / Search up to the call of get: urlParams is a
\* struct that embeds *config (a nil config is a nil pointer dereference)
\* and adds the TargetDate field.
previewCall(s, method, config) ==
    [panic |-> config = "nil",
     path  |-> getPreviewEndpoint(s.client.SpaceID, MethodPath(method), s.name, s.state),
     opts  |-> Opt("struct", <<"q">>, previewTargetDate(s.client), config = "bad")]

channelCall(s, method, config) ==
    IF s.kind = "online" THEN onlineCall(s, method, config)
    ELSE previewCall(s, method, config)

NoCall == [method |-> "none", config |-> "nil"]

\* r := &Response{} / &PaginatedResponse{}: the target get hands to do
FreshTarget == [kind |-> "json", field |-> "", data |-> <<>>]

IdleCli ==
    /\ newArgs = NoClientOptions /\ newErr = "none" /\ client = NoClient
    /\ chanArgs = NoChannelArgs /\ chanErr = "none" /\ chan = NoChannel
    /\ call = NoCall /\ gopts = NilPtrOptions /\ gpath = <<>>
    /\ req = NoRequest /\ gret = "pending"

IdleSort == sortPc = "done" /\ sortIn = <<>> /\ sortOut = <<>>
IdleOpt  == optPc = "done" /\ optPath = <<>> /\ optOpts = NilPtrOptions
            /\ optOut = [path |-> <<>>, err |-> "none"]
IdleDo   == /\ ctx = "nil" /\ v0 = NilTarget /\ v = NilTarget /\ sends = 0
            /\ terr = "none" /\ res = NoResponse /\ bodyState = "none"
            /\ ret = NoReturn

InitSort ==
    /\ sortPc = "input"
    /\ sortIn \in Sorting
    /\ sortOut = <<>>
    /\ IdleOpt /\ pc = "off" /\ IdleDo /\ cpc = "off" /\ IdleCli

SerializeSorting ==
    /\ sortPc = "input"
    /\ sortPc' = "done"
    /\ sortOut' = serializeSorting(sortIn)
    /\ UNCHANGED <<sortIn, optVars, doVars, cliVars>>

SpecSort == InitSort /\ [][SerializeSorting]_vars

InitOpts ==
    /\ optPc = "input"
    /\ optPath \in Paths
    /\ optOpts \in Options
    /\ optOut = [path |-> <<>>, err |-> "none"]
    /\ IdleSort /\ pc = "off" /\ IdleDo /\ cpc = "off" /\ IdleCli

AddOptions ==
    /\ optPc = "input"
    /\ optPc' = "done"
    /\ optOut' = addOptions(optPath, optOpts)
    /\ UNCHANGED <<optPath, optOpts, sortVars, doVars, cliVars>>

SpecOpts == InitOpts /\ [][AddOptions]_vars

(***************************************************************************)
(* Client.do, step by step.  The context may be cancelled or expire at any *)
(* moment of a call.                                                       *)
(***************************************************************************)
Init ==
    /\ pc = "idle"
    /\ IdleDo /\ IdleSort /\ IdleOpt /\ cpc = "off" /\ IdleCli

\* The nil check of the context on entry to do: where do goes on, and what
\* it has returned by then.
doEntry(c) ==
    IF ctxIsNil(c)
    THEN [pc |-> "done", ret |-> [resp |-> "nil", err |-> Err("nilctx")]]
    ELSE [pc |-> "send", ret |-> NoReturn]

\* do is called.
DoCall ==
    /\ pc = "idle"
    /\ \E c \in Contexts, t \in Targets :
         /\ ctx' = c
         /\ v0' = t
         /\ v' = t
         /\ pc' = doEntry(c).pc
         /\ ret' = doEntry(c).ret
    /\ UNCHANGED <<sends, terr, res, bodyState, sortVars, optVars, cliVars>>

\* The responses the server may give: every response to a bare call of do,
\* a few of them to a call made through a channel.
ServerResponses ==
    IF cpc = "off" THEN Responses
    ELSE {r \in Responses :
            /\ r.status \in {200, 404}
            /\ r.body.kind \in {"empty", "text", "object"}
            /\ r.body.kind = "object" =>
                 (r.body.message = "string" /\ r.body.response = "absent" /\ ~r.body.other)
            /\ ~r.readErr}

\* c.httpClient.Do(req): a transport error or a response.  A request whose
\* URL has no scheme is refused; with a context that is already done the
\* transport fails with an error wrapping the context's.
Transport ==
    /\ pc = "send"
    /\ sends' = sends + 1
    /\ \/ /\ ~Sendable(req)
          /\ terr' = "unsupportedScheme"
          /\ pc' = "failed"
          /\ UNCHANGED <<res, bodyState>>
       \/ /\ Sendable(req) /\ ctxDone(ctx)
          /\ terr' = "urlCtx"
          /\ pc' = "failed"
          /\ UNCHANGED <<res, bodyState>>
       \/ /\ Sendable(req) /\ ~ctxDone(ctx)
          /\ terr' \in TransportErrors
          /\ pc' = "failed"
          /\ UNCHANGED <<res, bodyState>>
       \/ /\ Sendable(req) /\ ~ctxDone(ctx)
          /\ res' \in ServerResponses
          /\ bodyState' = "open"
          /\ pc' = "responded"
          /\ UNCHANGED terr
    /\ UNCHANGED <<ctx, v0, v, ret, sortVars, optVars, cliVars>>

afterFailureRetry(e) == "send"

\* Where do goes on after a transport error: both branches of the select
\* return, there is no loop around httpClient.Do.
afterFailure(e) == "done"

\* err != nil: the select on ctx.Done() and the return.
DoTransportFailed ==
    /\ pc = "failed"
    /\ ret' = [resp |-> "nil", err |-> transportFailure(ctx, terr)]
    /\ pc' = afterFailure(terr)
    /\ UNCHANGED <<ctx, v0, v, sends, terr, res, bodyState, sortVars, optVars, cliVars>>

\* newResponse, checkResponse and, for a non-2xx status, the return.
DoCheckResponse ==
    /\ pc = "responded"
    /\ LET err == checkResponse(res)
       IN  IF err.kind # "none"
           THEN /\ ret' = [resp |-> "response", err |-> err]
                /\ bodyState' = deferredClose(bodyState)
                /\ pc' = "done"
           ELSE /\ pc' = "decode"
                /\ UNCHANGED <<ret, bodyState>>
    /\ UNCHANGED <<ctx, v0, v, sends, terr, res, sortVars, optVars, cliVars>>

\* if v != nil { io.Copy or Decode }; return response, err
DoDecode ==
    /\ pc = "decode"
    /\ LET d == jsonDecode(res, v)
       IN  CASE v.kind = "nil" ->
                  /\ v' = v
                  /\ ret' = [resp |-> "response", err |-> NoError]
             [] v.kind = "writer" ->
                  /\ v' = ioCopy(res, v)
                  /\ ret' = [resp |-> "response", err |-> NoError]
             [] OTHER ->
                  /\ v' = d.v
                  /\ ret' = [resp |-> "response", err |-> Err(decodeError(d.err))]
    /\ bodyState' = deferredClose(bodyState)
    /\ pc' = "done"
    /\ UNCHANGED <<ctx, v0, sends, terr, res, sortVars, optVars, cliVars>>

\* The caller's cancel function, or the deadline of the context.
Cancel ==
    /\ pc \in {"send", "failed", "responded", "decode", "done"}
    /\ ctx = "live"
    /\ ctx' \in {"canceled", "expired"}
    /\ UNCHANGED <<pc, v0, v, sends, terr, res, bodyState, ret, sortVars, optVars, cliVars>>

\* The caller has the result; the next call starts afresh.
Return ==
    /\ pc = "done"
    /\ pc' = "idle"
    /\ ctx' = "nil" /\ v0' = NilTarget /\ v' = NilTarget /\ sends' = 0
    /\ terr' = "none" /\ res' = NoResponse /\ bodyState' = "none"
    /\ ret' = NoReturn
    /\ UNCHANGED <<sortVars, optVars, cliVars>>

Next ==
    \/ DoCall
    \/ Transport
    \/ DoTransportFailed
    \/ DoCheckResponse
    \/ DoDecode
    \/ Cancel
    \/ Return

Spec == Init /\ [][Next]_vars

(***************************************************************************)
(* A program that uses the client: NewClient, then a channel, then calls   *)
(* of Content and Search, each of which runs get: addOptions, newRequest,  *)
(* do.  do runs as above.                                                  *)
(***************************************************************************)
InitClient ==
    /\ cpc = "start"
    /\ pc = "off"
    /\ IdleDo /\ IdleSort /\ IdleOpt /\ IdleCli

NewClientCall ==
    /\ cpc = "start"
    /\ \E o \in ClientOptions :
         /\ newArgs' = o
         /\ newErr' = NewClient(o).err
         /\ client' = NewClient(o).client
         /\ cpc' = IF NewClient(o).err = "none" THEN "client" ELSE "start"
    /\ UNCHANGED <<chanArgs, chanErr, chan, call, gopts, gpath, req, gret,
                   sortVars, optVars, doVars>>

MakeOnlineChannel ==
    /\ cpc = "client"
    /\ \E name \in ChannelNames, apiKey \in ApiKeys :
         LET r == OnlineChannel(client, name, apiKey)
         IN  /\ chanArgs' = [kind |-> "online", name |-> name, apiKey |-> apiKey, state |-> ""]
             /\ chanErr' = r.err
             /\ chan' = r.channel
             /\ cpc' = IF r.err = "none" THEN "chan" ELSE "client"
    /\ UNCHANGED <<newArgs, newErr, client, call, gopts, gpath, req, gret,
                   sortVars, optVars, doVars>>

MakePreviewChannel ==
    /\ cpc = "client"
    /\ \E name \in ChannelNames, apiKey \in ApiKeys, state \in PreviewStates :
         LET r == PreviewChannel(client, name, apiKey, state)
         IN  /\ chanArgs' = [kind |-> "preview", name |-> name, apiKey |-> apiKey, state |-> state]
             /\ chanErr' = r.err
             /\ chan' = r.channel
             /\ cpc' = IF r.err = "none" THEN "chan" ELSE "client"
    /\ UNCHANGED <<newArgs, newErr, client, call, gopts, gpath, req, gret,
                   sortVars, optVars, doVars>>

\* Content or Search is called and runs up to its call of get.
ChannelCall(method, config, c) ==
    LET r == channelCall(chan, method, config)
    IN  /\ call' = [method |-> method, config |-> config]
        /\ ctx' = c
        /\ IF r.panic
           THEN /\ cpc' = "panicked"
                /\ gret' = "panic"
                /\ UNCHANGED <<gpath, gopts>>
           ELSE /\ cpc' = "get"
                /\ gpath' = r.path
                /\ gopts' = r.opts
                /\ UNCHANGED gret
        /\ UNCHANGED <<newArgs, newErr, client, chanArgs, chanErr, chan, req,
                       pc, v0, v, sends, terr, res, bodyState, ret, sortVars, optVars>>

CallContent ==
    /\ cpc = "chan"
    /\ \E config \in ContentConfigs, c \in Contexts : ChannelCall("Content", config, c)

CallSearch ==
    /\ cpc = "chan"
    /\ \E config \in SearchConfigs, c \in Contexts : ChannelCall("Search", config, c)

\* get: path, err := addOptions(path, opts)
GetAddOptions ==
    /\ cpc = "get"
    /\ LET r == addOptions(gpath, gopts)
       IN  IF r.err # "none"
           THEN cpc' = "returned" /\ gret' = r.err /\ UNCHANGED gpath
           ELSE cpc' = "build" /\ gpath' = r.path /\ UNCHANGED gret
    /\ UNCHANGED <<newArgs, newErr, client, chanArgs, chanErr, chan, call, gopts,
                   req, sortVars, optVars, doVars>>

\* get: req, err := c.newRequest(http.MethodGet, path, nil) and the API key header
GetNewRequest ==
    /\ cpc = "build"
    /\ LET r == newRequest(chan.client, "GET", gpath, "nil")
       IN  IF r.err
           THEN cpc' = "returned" /\ gret' = "parse" /\ UNCHANGED req
           ELSE cpc' = "do" /\ req' = [r.req EXCEPT !.ApiKey = chan.apiKey]
                /\ UNCHANGED gret
    /\ UNCHANGED <<newArgs, newErr, client, chanArgs, chanErr, chan, call, gopts,
                   gpath, sortVars, optVars, doVars>>

\* get: the call c.do(ctx, req, v)
GetDo ==
    /\ cpc = "do"
    /\ cpc' = "indo"
    /\ v0' = FreshTarget
    /\ v' = FreshTarget
    /\ pc' = doEntry(ctx).pc
    /\ ret' = doEntry(ctx).ret
    /\ UNCHANGED <<newArgs, newErr, client, chanArgs, chanErr, chan, call, gopts,
                   gpath, req, gret, ctx, sends, terr, res, bodyState,
                   sortVars, optVars>>

\* get: return err, which Content / Search return to the caller
GetReturn ==
    /\ cpc = "indo"
    /\ pc = "done"
    /\ cpc' = "returned"
    /\ pc' = "off"
    /\ gret' = ret.err.kind
    /\ UNCHANGED <<newArgs, newErr, client, chanArgs, chanErr, chan, call, gopts,
                   gpath, req, ctx, v0, v, sends, terr, res, bodyState, ret,
                   sortVars, optVars>>

\* The caller goes on to its next call on the channel.
NextCall ==
    /\ cpc = "returned"
    /\ cpc' = "chan"
    /\ call' = NoCall /\ gopts' = NilPtrOptions /\ gpath' = <<>>
    /\ req' = NoRequest /\ gret' = "pending"
    /\ ctx' = "nil" /\ v0' = NilTarget /\ v' = NilTarget /\ sends' = 0
    /\ terr' = "none" /\ res' = NoResponse /\ bodyState' = "none"
    /\ ret' = NoReturn
    /\ UNCHANGED <<newArgs, newErr, client, chanArgs, chanErr, chan, pc,
                   sortVars, optVars>>

NextClient ==
    \/ NewClientCall
    \/ MakeOnlineChannel
    \/ MakePreviewChannel
    \/ CallContent
    \/ CallSearch
    \/ GetAddOptions
    \/ GetNewRequest
    \/ GetDo
    \/ Transport
    \/ DoTransportFailed
    \/ DoCheckResponse
    \/ DoDecode
    \/ Cancel
    \/ GetReturn
    \/ NextCall

SpecClient == InitClient /\ [][NextClient]_vars

(***************************************************************************)
(* Claims about serializeSorting.                                          *)
(***************************************************************************)
RemoveAt(s, i) == SubSeq(s, 1, i - 1) \o SubSeq(s, i + 1, Len(s))

Blank(field) == TrimSpace(field.FieldName) = <<>>

\* C1: an entry whose field name is empty after trimming contributes no
\* character to the output: the output is the output of the same sort
\* specification without that entry.
C1_BlankEntryEmitsNothing ==
    sortPc = "done" =>
        \A i \in 1..Len(sortIn) :
            Blank(sortIn[i]) => sortOut = serializeSorting(RemoveAt(sortIn, i))

\* The token sign+trimmedName of an entry.
Token(field) == <<IF field.Ascending THEN "+" ELSE "-">> \o TrimSpace(field.FieldName)

KeptTokens(s) ==
    LET kept == SelectSeq(s, LAMBDA f : ~Blank(f))
    IN  [i \in 1..Len(kept) |-> Token(kept[i])]

\* C2: the output is exactly the tokens sign+trimmedName of the entries with
\* a non-empty (trimmed) field name, in input order, separated by single
\* commas, so the number of commas is the number of tokens minus one.
C2_TokensJoinedByCommas ==
    sortPc = "done" =>
        /\ sortOut = Join(KeptTokens(sortIn), <<",">>)
        /\ Count(sortOut, ",") =
              (IF KeptTokens(sortIn) = <<>> THEN 0 ELSE Len(KeptTokens(sortIn)) - 1)

(***************************************************************************)
(* Claims about checkResponse and Client.do.                               *)
(***************************************************************************)
\* do has returned after the transport returned a response.
Responded == pc = "done" /\ sends = 1 /\ terr = "none"

\* The status code of the response is outside 200..299.
Non2xx == res.status < 200 \/ res.status > 299

\* C3: for a non-2xx response the error references that response, and its
\* message is the body's message field when the body is a JSON object with
\* a string message field, empty when the body is empty, and the raw body
\* text when the body is not valid JSON.
C3_ErrorMessage ==
    (Responded /\ Non2xx /\ ~res.readErr) =>
        /\ ret.err.kind = "api"
        /\ ret.err.Response = "r"
        /\ (res.body.kind = "object" /\ res.body.message = "string")
              => ret.err.Message = StrM
        /\ res.body.kind = "empty" => ret.err.Message = StrEmpty
        /\ res.body.kind = "text" => ret.err.Message = RawText(res.body)

\* C4: for a non-2xx response whose non-empty body is valid JSON without a
\* message field, the message of the error is the raw body text.
C4_NoMessageFieldRaw ==
    (Responded /\ Non2xx /\ ~res.readErr
       /\ res.body.kind \in {"null", "number", "object"}
       /\ res.body.message = "absent") =>
        ret.err.Message = RawText(res.body)

\* C5: when the transport returned a response, do returns an API error if
\* and only if the status code is outside 200..299, and then the target
\* holds exactly what the caller passed in.
C5_ApiErrorIffNon2xx ==
    Responded =>
        /\ ret.err.kind = "api" <=> Non2xx
        /\ Non2xx => v = v0

C5_Witness ==
    /\ Responded /\ Non2xx /\ ret.err.kind = "api"
    /\ res.body.kind = "object" /\ res.body.message = "string" /\ ~res.readErr
    /\ v0.kind = "json" /\ v = v0

\* C6: with a nil context do returns an error and no response, and the
\* transport is not invoked in that call.
C6_NilContext ==
    ctx = "nil" =>
        /\ sends = 0
        /\ pc \notin {"send", "failed", "responded", "decode"}
        /\ pc = "done" => (ret.resp = "nil" /\ ret.err.kind = "nilctx")

C6_Witness == pc = "done" /\ ctx = "nil" /\ v0.kind = "json" /\ ret.err.kind = "nilctx"

\* C7: when the transport call fails, do returns the context's error if the
\* context is cancelled or expired at that moment, and the transport's error
\* unchanged otherwise; no response is returned and the target is untouched.
C7_TransportFailure ==
    [][(pc = "failed" /\ pc' = "done") =>
          /\ ret'.resp = "nil"
          /\ v' = v0
          /\ ret'.err = (IF ctx = "canceled" THEN Err("Canceled")
                         ELSE IF ctx = "expired" THEN Err("DeadlineExceeded")
                         ELSE Err(terr))]_vars

C7_Witness ==
    /\ pc = "done" /\ sends = 1 /\ terr = "connRefused"
    /\ ctx = "canceled" /\ ret.err.kind = "Canceled" /\ ret.resp = "nil"

\* C8: whenever the transport returned a response, the response body is
\* closed by the time do returns: on success, on a non-2xx API error and on
\* a JSON decode error.
C8_BodyClosed == Responded => bodyState = "closed"

C8_Witness ==
    /\ Responded /\ bodyState = "closed"
    /\ ret.err.kind = "syntax" /\ ret.resp = "response"

\* C9: for a 2xx response with an empty body and a non-nil JSON target, do
\* returns no error and leaves the target at the value it had on entry.
C9_EmptyBodyDecodes ==
    (Responded /\ ~Non2xx /\ res.body.kind = "empty" /\ ~res.readErr
       /\ v0.kind = "json") =>
        (ret.err = NoError /\ ret.resp = "response" /\ v = v0)

C9_Witness ==
    /\ Responded /\ res.status = 200 /\ res.body.kind = "empty" /\ ~res.readErr
    /\ v0.kind = "json" /\ v0.field = "old" /\ v = v0 /\ ret.err = NoError

(***************************************************************************)
(* Claims about addOptions.                                                *)
(***************************************************************************)
\* C10: for a null/absent options reference (a typed nil pointer, or no
\* options at all) addOptions returns exactly the input path and no error.
C10_NilOptionsKeepPath ==
    (optPc = "done" /\ optOpts.kind \in {"nil", "nilptr"}) =>
        optOut = [path |-> optPath, err |-> "none"]

(***************************************************************************)
(* Claims about the client, its channels and their calls.                  *)
(***************************************************************************)
\* The request URL without scheme and host and without its query.
PathOfURL(u) ==
    LET p  == IF u # <<>> /\ Head(u) = "https://host" THEN Tail(u) ELSE u
        qs == {i \in 1..Len(p) : p[i] = "?"}
    IN  IF qs = {} THEN p
        ELSE SubSeq(p, 1, (CHOOSE i \in qs : \A j \in qs : i <= j) - 1)

\* The query of the request URL, without the "?".
QueryOfURL(u) ==
    LET qs == {i \in 1..Len(u) : u[i] = "?"}
    IN  IF qs = {} THEN <<>>
        ELSE SubSeq(u, (CHOOSE i \in qs : \A j \in qs : i <= j) + 1, Len(u))

HasToken(u, t) == \E i \in 1..Len(u) : u[i] = t

\* A base URL as text without its trailing slash.
StripSlash(b) ==
    IF b # <<>> /\ b[Len(b)] = "/" THEN SubSeq(b, 1, Len(b) - 1) ELSE b

\* C11: OnlineChannel(name, key) fails, giving no channel, if and only if
\* name or key is empty; PreviewChannel(name, key, state) fails if and only
\* if name or key is empty or state is neither "live" nor "staging".  On
\* success the channel holds exactly the given name, key and state and the
\* client it was created from.
C11_ChannelConstructors ==
    chanArgs.kind # "none" =>
        /\ chanErr # "none" <=>
             \/ chanArgs.name = <<>>
             \/ chanArgs.apiKey = ""
             \/ chanArgs.kind = "preview" /\ chanArgs.state \notin {"live", "staging"}
        /\ chanErr # "none" => chan = NoChannel
        /\ chanErr = "none" =>
             /\ chan.kind = chanArgs.kind
             /\ chan.name = chanArgs.name
             /\ chan.apiKey = chanArgs.apiKey
             /\ chan.state = chanArgs.state
             /\ chan.client = client

C11_Witness ==
    /\ chanArgs.kind = "preview" /\ chanErr = "none"
    /\ chan.state = "staging" /\ chan.name = <<"n">> /\ chan.apiKey = "k2"
    /\ chan.client = client /\ client.made

\* C12: NewClient fails whenever the base URL is not an absolute URL (empty,
\* or a relative path without scheme and host) or the space identifier is
\* empty: every client it returns has an absolute base URL and a non-empty
\* space identifier.
C12_ClientHasAbsoluteBase ==
    /\ newErr = "none" /\ newArgs # NoClientOptions =>
         /\ newArgs.BaseURL # <<>> /\ Head(newArgs.BaseURL) = "https://host"
         /\ newArgs.SpaceID # <<>>
    /\ client.made => client.BaseURL.Host # <<>> /\ client.SpaceID # <<>>

\* C13: for every absolute base URL B, a path prefix included, and every
\* Online channel named n, the URL Content requests is B followed by
\* /space/{spaceID}/online/content/n, the URL Search requests is B followed
\* by /space/{spaceID}/online/search/v2/n, each followed only by the query.
C13_OnlineURL ==
    (req # NoRequest /\ chan.kind = "online" /\ client.BaseURL.Host # <<>>) =>
        \E q \in {<<>>, <<"?", "q">>} :
            req.url = StripSlash(newArgs.BaseURL)
                        \o <<"/", "space", "/">> \o client.SpaceID
                        \o <<"/", "online", "/">>
                        \o (IF call.method = "Content" THEN <<"content">>
                            ELSE <<"search", "/", "v2">>)
                        \o <<"/">> \o chan.name \o q

C17_PreviewNilOptions ==
    (chan.kind = "preview" /\ call.method # "none" /\ call.config = "nil") =>
        /\ cpc # "panicked"
        /\ req # NoRequest => ~HasToken(req.url, "q")

\* C18: in every call the steps run in the order encode query, build
\* request, invoke transport; when the encoding of the query or the
\* construction of the request fails, that error is returned and the
\* transport is not invoked in that call.
C18_FailBeforeTransport ==
    /\ sends >= 1 /\ cpc # "off" => req # NoRequest
    /\ req # NoRequest => chan.name # <<"%">> /\ call.config # "bad"
    /\ (cpc = "returned" /\ chan.name = <<"%">>) => gret = "parse" /\ sends = 0
    /\ (cpc = "returned" /\ chan.name # <<"%">> /\ call.config = "bad") =>
         gret = "encode" /\ sends = 0

C18_Witness ==
    /\ cpc = "returned" /\ call.config = "bad" /\ chan.name = <<"n">>
    /\ gret = "encode" /\ sends = 0 /\ req = NoRequest

\* C19: every call of do, get, Content or Search invokes the transport at
\* most once, whatever the outcome, and returns exactly one result: a failed
\* call is never issued again.
C19_AtMostOneSend ==
    /\ sends <= 1
    /\ cpc \in {"get", "build", "do", "indo"} => gret = "pending"
    /\ cpc = "returned" => gret # "pending" /\ pc = "off"
    /\ (cpc = "returned" /\ sends = 1) => ret # NoReturn /\ gret = ret.err.kind

C19_Witness ==
    /\ cpc = "returned" /\ sends = 1 /\ terr = "connRefused"
    /\ gret = "connRefused"

====
